---- MODULE Spec2Model ----
(***************************************************************************)
(* EximPulse (src/eximpulse.py): a Streamlit script that is re-run from    *)
(* top to bottom on every interaction.  Each run loads the news API key,   *)
(* fetches news, a forex quote, port weather and a commodity quote, and    *)
(* renders one widget per source.  get_live_price is memoised by           *)
(* @st.cache_data(ttl=60); get_news_ticker and get_weather are not.        *)
(*                                                                         *)
(* Python values are records with a "type" field.  Floats are modelled as  *)
(* exact fractions [num, den]; a zero denominator stands for the inf/nan   *)
(* that numpy float64 division by zero yields (it warns, it does not       *)
(* raise).  Prices are integers in hundredths.  The emoji of the source's  *)
(* string literals are written as ASCII tags ([warn], [news], [live]).     *)
(***************************************************************************)
EXTENDS Integers, Sequences, FiniteSets, TLC

VARIABLES
    secrets,             \* content of st.secrets (the deployment's configuration)
    NEWS_API_KEY,        \* module global set by lines 17-20 on every run
    now,                 \* the clock, in seconds
    cache,               \* st.cache_data store of get_live_price: ticker -> entry
    pc,                  \* position of the script run
    currency_pair,       \* sidebar select box (line 152)
    selected_port,       \* sidebar select box (line 153)
    selected_comm_name,  \* scanner select box (line 208)
    last,                \* record of the most recent fetch-function call
    widget,              \* the widget rendered by the most recent step
    lastFetch,           \* per ticker: time and result of the last remote quote call
    lastRet,             \* per ticker: time and value of the last get_live_price return
    lastWeather,         \* summary of the get_weather call before the last one
    sess,                \* concurrent sessions inside get_live_price
    remoteLog            \* set of <<ticker, result>> completed remote quote calls

vars == <<secrets, NEWS_API_KEY, now, cache, pc, currency_pair, selected_port,
          selected_comm_name, last, widget, lastFetch, lastRet, lastWeather,
          sess, remoteLog>>

-----------------------------------------------------------------------------
(* Bounds of the model *)

MaxTime == 119
MaxRows == 3
MaxArticles == 2
NumSessions == 2

-----------------------------------------------------------------------------
(* Program constants *)

TTL == 60
NEWS_LIMIT == 10

-----------------------------------------------------------------------------
(* Python values *)

PyNone == [type |-> "NoneType"]
PyStr(s) == [type |-> "str", s |-> s]
PyDict(items) == [type |-> "dict", items |-> items]
PyList(xs) == [type |-> "list", xs |-> xs]

\* Python truthiness of the values that reach an `if`
Truthy(v) ==
    CASE v.type = "NoneType" -> FALSE
      [] v.type = "str" -> v.s # ""
      [] v.type = "dict" -> DOMAIN v.items # {}
      [] v.type = "list" -> v.xs # <<>>
      [] OTHER -> TRUE

\* float64 a / b : exact fraction, den = 0 encodes inf / nan
FloatDiv(a, b) == [num |-> a, den |-> b]
FloatTimes(r, n) == [num |-> r.num * n, den |-> r.den]

-----------------------------------------------------------------------------
(* Static tables.  A Python dict literal is a sequence of key/value pairs;  *)
(* a lookup returns the value of the last pair with that key and raises     *)
(* KeyError when there is none.                                             *)

COMMODITY_MAP == <<
    <<"Cotton (5201)", "CT=F">>,
    <<"Coffee (0901)", "KC=F">>,
    <<"Sugar (1701)", "SB=F">>,
    <<"Wheat (1001)", "ZW=F">>,
    <<"Corn (1005)", "ZC=F">>,
    <<"Soybean (1201)", "ZS=F">>,
    <<"Silver (7106)", "SI=F">>,
    <<"Crude Oil", "CL=F">>,
    <<"Cocoa (1801)", "CC=F">> >>

\* faulty variant of map_fx: an offered pair without an entry
map_fx_short == <<
    <<"USD/INR", "INR=X">>,
    <<"EUR/INR", "EURINR=X">> >>

map_fx == <<
    <<"USD/INR", "INR=X">>,
    <<"EUR/INR", "EURINR=X">>,
    <<"GBP/INR", "GBPINR=X">> >>

\* latitude / longitude in tenths of a degree
coords == <<
    <<"Mundra", <<228, 697>> >>,
    <<"JNPT", <<189, 729>> >>,
    <<"Chennai", <<130, 802>> >>,
    <<"Kolkata", <<225, 883>> >> >>

coords_default == <<228, 697>>

CurrencyOptions == <<"USD/INR", "EUR/INR", "GBP/INR">>
PortOptions == <<"Mundra", "JNPT", "Kolkata", "Chennai">>

Range(s) == {s[i] : i \in DOMAIN s}

DictKeysSeq(d) == [i \in DOMAIN d |-> d[i][1]]
DictHas(d, k) == \E i \in DOMAIN d : d[i][1] = k
DictGet(d, k) ==
    LET idx == {i \in DOMAIN d : d[i][1] = k}
        top == CHOOSE i \in idx : \A j \in idx : j <= i
    IN d[top][2]
DictGetDefault(d, k, dflt) == IF DictHas(d, k) THEN DictGet(d, k) ELSE dflt

\* list(COMMODITY_MAP.keys()): the keys in insertion order, each once
CommodityOptions == DictKeysSeq(COMMODITY_MAP)

Tickers == {COMMODITY_MAP[i][2] : i \in DOMAIN COMMODITY_MAP}
             \cup {map_fx[i][2] : i \in DOMAIN map_fx}

-----------------------------------------------------------------------------
(* What a remote provider can do when it is called.                         *)
(*   kind "raise"   : the library call raises (DNS, refused, HTTP layer)    *)
(*   kind "timeout" : requests raises Timeout after the timeout= seconds    *)
(*   kind "badjson" : .json() raises on a body that is not JSON             *)
(*   kind "data"    : the call returns `body`                               *)

Raise == [kind |-> "raise"]
Timeout == [kind |-> "timeout"]
BadJson == [kind |-> "badjson"]
Data(body) == [kind |-> "data", body |-> body]

Raises(o) == o.kind \in {"raise", "timeout", "badjson"}

\* --- quote provider: yf.Ticker(sym).history(period="5d") -----------------
\* A DataFrame: its index name, its set of columns and its rows, oldest first.
Prices == {0, 8340, 8350}
AllColumns == {"Open", "High", "Low", "Close", "Volume"}
ColumnSets == {AllColumns, AllColumns \ {"Volume"}, AllColumns \ {"Open"},
               AllColumns \ {"Close"}}
OpenPrices == {8340, 8345}
Row(o, c) == [Open |-> o, Close |-> c, Volume |-> 1200]
Rows == {Row(o, c) : o \in OpenPrices, c \in Prices}
SeqsUpTo(S, n) == UNION {[1..m -> S] : m \in 0..n}
Frame(cols, rows) == [index |-> "Date", cols |-> cols, rows |-> rows]

AllQuoteOutcomes ==
    {Raise, Timeout}
      \cup {Data(Frame(cs, rs)) : cs \in ColumnSets, rs \in SeqsUpTo(Rows, MaxRows)}

\* the outcomes the render cycle is explored with
HistEmpty == Frame(AllColumns, <<>>)
HistOne == Frame(AllColumns, <<Row(8340, 8340)>>)
HistA == Frame(AllColumns, <<Row(8340, 8340), Row(8340, 8350)>>)
HistB == Frame(AllColumns, <<Row(8350, 8350), Row(8350, 8340)>>)
HistNoOpen == Frame(AllColumns \ {"Open"}, <<Row(8340, 8340), Row(8340, 8350)>>)
WellFormedQuoteOutcomes ==
    {Raise, Timeout, Data(HistEmpty), Data(HistOne), Data(HistA), Data(HistB)}
QuoteOutcomes == WellFormedQuoteOutcomes \cup {Data(HistNoOpen)}

\* --- weather provider: requests.get(url, timeout=2).json() ---------------
CurrentFull == PyDict([temperature |-> 31, windspeed |-> 12])
CurrentNoTemp == PyDict([windspeed |-> 12])
CurrentNoWind == PyDict([temperature |-> 31])
CurrentEmpty == PyDict(<<>>)
WeatherOutcomes ==
    {Raise, Timeout, BadJson,
     Data(PyList(<<>>)),
     Data(PyDict([error |-> PyStr("bad request")])),
     Data(PyDict([current_weather |-> CurrentFull])),
     Data(PyDict([current_weather |-> CurrentNoTemp])),
     Data(PyDict([current_weather |-> CurrentNoWind])),
     Data(PyDict([current_weather |-> CurrentEmpty]))}

\* --- news provider: requests.get(url, timeout=3).json() ------------------
MissingKeyMsg == "[warn] News API Key Missing. Add to secrets.toml to see live news."
NoNewsMsg == "No recent news found."
NewsUnavailableMsg == "News feed unavailable."

Article(t, n) == PyDict([title |-> t, source |-> PyDict([name |-> n])])
ArticleNoTitle == PyDict([source |-> PyDict([name |-> "Reuters"])])
ArticleNoSource == PyDict([title |-> "Sugar output up"])
Articles ==
    {Article("Cotton exports rise", "Reuters"),
     Article(MissingKeyMsg, "Mint"),
     ArticleNoTitle, ArticleNoSource}
ManyArticles == [i \in 1..(NEWS_LIMIT + 1) |-> Article("Wheat firm", "PTI")]
NewsOutcomes ==
    {Raise, Timeout, BadJson,
     Data(PyList(<<>>)),
     Data(PyDict([status |-> PyStr("error")])),
     Data(PyDict([articles |-> PyNone])),
     Data(PyDict([articles |-> PyList(ManyArticles)]))}
      \cup {Data(PyDict([articles |-> PyList(as)])) : as \in SeqsUpTo(Articles, MaxArticles)}

-----------------------------------------------------------------------------
(* The fetch functions.  Each body evaluates to [exc, value, net]:          *)
(* exc   - TRUE when an exception leaves the function,                      *)
(* value - the returned Python value,                                       *)
(* net   - the number of outbound provider calls the invocation made.       *)

Returned(v, n) == [exc |-> FALSE, value |-> v, net |-> n]
Thrown(n) == [exc |-> TRUE, value |-> PyNone, net |-> n]

\* history.reset_index(): the index becomes a column
reset_index(h) == [cols |-> h.cols \cup {h.index}, rows |-> h.rows]

\* faulty variant of get_live_price_try: the change is taken against the day's open
get_live_price_try_open(o) ==
    IF Raises(o) THEN Thrown(1)
    ELSE LET history == o.body
             n == Len(history.rows)
         IN IF n # 0 /\ history.cols # {}
            THEN IF "Close" \notin history.cols THEN Thrown(1)
                 ELSE LET current_price == history.rows[n].Close
                          open_price == history.rows[n].Open
                      IN Returned(PyDict([price |-> current_price,
                                          change |-> FloatTimes(FloatDiv(current_price - open_price,
                                                                         open_price), 100),
                                          volume |-> IF "Volume" \in history.cols
                                                     THEN history.rows[n].Volume ELSE 0,
                                          history |-> reset_index(history),
                                          status |-> "Live [live]"]), 1)
            ELSE Returned(PyNone, 1)

\* lines 100-118, the body of the try block
get_live_price_try(o) ==
    IF Raises(o) THEN Thrown(1)
    ELSE LET history == o.body
             n == Len(history.rows)
         IN IF n # 0 /\ history.cols # {}                   \* not history.empty
            THEN IF "Close" \notin history.cols THEN Thrown(1)   \* KeyError
                 ELSE IF n < 2 THEN Thrown(1)                    \* iloc[-2]: IndexError
                 ELSE LET current_price == history.rows[n].Close
                          prev_close == history.rows[n - 1].Close
                          change_pct ==
                              FloatTimes(FloatDiv(current_price - prev_close, prev_close), 100)
                          volume == IF "Volume" \in history.cols
                                    THEN history.rows[n].Volume ELSE 0
                      IN Returned(PyDict([price |-> current_price,
                                          change |-> change_pct,
                                          volume |-> volume,
                                          history |-> reset_index(history),
                                          status |-> "Live [live]"]), 1)
            ELSE Returned(PyNone, 1)

\* lines 97-120 without the decorator: except Exception -> None
get_live_price_body(o) ==
    LET r == get_live_price_try(o)
    IN IF r.exc THEN Returned(PyNone, r.net) ELSE r

\* "   +++   ".join(headlines)
RECURSIVE Join(_, _)
Join(sep, xs) ==
    IF xs = <<>> THEN ""
    ELSE IF Len(xs) = 1 THEN xs[1]
    ELSE xs[1] \o sep \o Join(sep, Tail(xs))

Slice(xs, n) == SubSeq(xs, 1, IF Len(xs) < n THEN Len(xs) ELSE n)

\* a['title'] and a['source']['name'] both succeed
ArticleOk(a) ==
    /\ a.type = "dict"
    /\ "title" \in DOMAIN a.items
    /\ "source" \in DOMAIN a.items
    /\ a.items.source.type = "dict"
    /\ "name" \in DOMAIN a.items.source.items
Headline(a) == "[news] " \o a.items.title \o " (" \o a.items.source.items.name \o ")"

\* lines 126-131, the body of the try block
get_news_ticker_try(o) ==
    IF Raises(o) THEN Thrown(1)
    ELSE LET data == o.body
         IN IF data.type # "dict" THEN Thrown(1)             \* no .get: AttributeError
            ELSE LET got == IF "articles" \in DOMAIN data.items
                            THEN data.items.articles ELSE PyList(<<>>)
                 IN IF got.type # "list" THEN Thrown(1)      \* None[:10]: TypeError
                    ELSE LET articles == Slice(got.xs, NEWS_LIMIT)
                         IN IF articles = <<>> THEN Returned(PyStr(NoNewsMsg), 1)
                            ELSE IF \E i \in DOMAIN articles : ~ArticleOk(articles[i])
                                 THEN Thrown(1)             \* KeyError / TypeError
                                 ELSE Returned(PyStr(Join("   +++   ",
                                          [i \in DOMAIN articles |-> Headline(articles[i])])), 1)

\* faulty variant of get_news_ticker: a missing key reported as a feed failure
get_news_ticker_merged(key, o) ==
    IF key = "" THEN Returned(PyStr(NewsUnavailableMsg), 0)
    ELSE LET r == get_news_ticker_try(o)
         IN IF r.exc THEN Returned(PyStr(NewsUnavailableMsg), r.net) ELSE r

\* lines 122-133
get_news_ticker(key, o) ==
    IF key = "" THEN Returned(PyStr(MissingKeyMsg), 0)
    ELSE LET r == get_news_ticker_try(o)
         IN IF r.exc THEN Returned(PyStr(NewsUnavailableMsg), r.net) ELSE r

\* lines 139-140, the body of the try block
get_weather_try(o) ==
    IF Raises(o) THEN Thrown(1)
    ELSE LET data == o.body
         IN IF data.type # "dict" THEN Thrown(1)             \* list['current_weather']
            ELSE IF "current_weather" \notin DOMAIN data.items THEN Thrown(1)
            ELSE Returned(data.items.current_weather, 1)

\* faulty variant of get_weather: one retry after a failed request
get_weather_retry(port, o) ==
    LET r == get_weather_try(o)
    IN IF r.exc THEN Returned(PyNone, r.net + 1) ELSE r

\* lines 135-142; the coordinates only select the URL that is requested
get_weather(port, o) ==
    LET latlon == DictGetDefault(coords, port, coords_default)
        r == get_weather_try(o)
    IN IF r.exc THEN Returned(PyNone, r.net) ELSE r

-----------------------------------------------------------------------------
(* @st.cache_data(ttl=60), line 96.  The store maps the hashed argument     *)
(* (the ticker string) to the pickled return value and its insertion time.  *)
(* An entry is served while now - insertedAt < ttl; otherwise the function  *)
(* runs in the calling thread and whatever it RETURNS (None included) is    *)
(* stored.  Only a raised exception is not stored.                          *)

NoEntry == [type |-> "absent"]
Entry(v, t) == [type |-> "entry", value |-> v, insertedAt |-> t]

\* faulty variant of CacheKey: the argument is left out of the key
CacheKey_noArg(ticker_symbol) == "INR=X"

CacheKey(ticker_symbol) == ticker_symbol

\* faulty variants of Fresh: an entry dropped a second early / served a second late
Fresh_early(e, t) == e.type = "entry" /\ t - e.insertedAt < TTL - 1
Fresh_late(e, t) == e.type = "entry" /\ t - e.insertedAt <= TTL

Fresh(e, t) == e.type = "entry" /\ t - e.insertedAt < TTL

\* faulty variant of Stored: a None result is not kept
Stored_skipNone(c, k, r, t) ==
    IF r.exc \/ r.value = PyNone THEN c ELSE [c EXCEPT ![CacheKey(k)] = Entry(r.value, t)]

\* the value a computed result leaves in the store
Stored(c, k, r, t) == IF r.exc THEN c ELSE [c EXCEPT ![CacheKey(k)] = Entry(r.value, t)]

\* one call get_live_price(k) at time t on store c, the provider doing o
cached_get_live_price(c, k, o, t) ==
    IF Fresh(c[CacheKey(k)], t)
    THEN [exc |-> FALSE, value |-> c[CacheKey(k)].value, net |-> 0, hit |-> TRUE,
          cache |-> c]
    ELSE LET r == get_live_price_body(o)
         IN [exc |-> r.exc, value |-> r.value, net |-> r.net, hit |-> FALSE,
             cache |-> Stored(c, k, r, t)]

-----------------------------------------------------------------------------
(* Observation variables *)

NoCall == [type |-> "none"]
Seen(t, v) == [type |-> "seen", t |-> t, value |-> v]

NoWidget == [kind |-> "none"]
Crash(line) == [kind |-> "exception", line |-> line]

Sessions == 1..NumSessions
IdleSession == [pc |-> "idle", key |-> "", res |-> PyNone, ret |-> NoCall]

\* what the select boxes are explored with (the full option lists are
\* explored by SpecSelect)
ExploredCurrencies == {CurrencyOptions[1]}
ExploredPorts == {PortOptions[1], PortOptions[2]}
ExploredCommodities == {CommodityOptions[8]}
ConcurrentKeys == {"INR=X", "CL=F"}

SecretsStates ==
    {[has |-> FALSE, key |-> ""], [has |-> TRUE, key |-> ""],
     [has |-> TRUE, key |-> "k3y"]}

Init ==
    /\ secrets \in SecretsStates
    /\ NEWS_API_KEY = ""
    /\ now = 0
    /\ cache = [k \in Tickers |-> NoEntry]
    /\ pc = "secrets"
    /\ currency_pair = CurrencyOptions[1]
    /\ selected_port = PortOptions[1]
    /\ selected_comm_name = CommodityOptions[1]
    /\ last = NoCall
    /\ widget = NoWidget
    /\ lastFetch = [k \in Tickers |-> NoCall]
    /\ lastRet = [k \in Tickers |-> NoCall]
    /\ lastWeather = NoCall
    /\ sess = [s \in Sessions |-> IdleSession]
    /\ remoteLog = {}

-----------------------------------------------------------------------------
(* Steps of one script run *)

\* time passes (between runs, and while a provider call is in flight)
Tick(d) ==
    /\ now + d <= MaxTime
    /\ now' = now + d
    /\ UNCHANGED <<secrets, NEWS_API_KEY, cache, pc, currency_pair, selected_port,
                   selected_comm_name, last, widget, lastFetch, lastRet, lastWeather,
                   sess, remoteLog>>

\* an interaction (or a new page load) starts the script again from line 1
Rerun ==
    /\ pc \in {"done", "crashed"}
    /\ pc' = "secrets"
    /\ widget' = NoWidget
    /\ UNCHANGED <<secrets, NEWS_API_KEY, now, cache, currency_pair, selected_port,
                   selected_comm_name, last, lastFetch, lastRet, lastWeather, sess,
                   remoteLog>>

\* lines 17-20
LoadSecrets ==
    /\ pc = "secrets"
    /\ NEWS_API_KEY' = IF secrets.has THEN secrets.key ELSE ""
    /\ pc' = "ticker"
    /\ UNCHANGED <<secrets, now, cache, currency_pair, selected_port,
                   selected_comm_name, last, widget, lastFetch, lastRet, lastWeather,
                   sess, remoteLog>>

\* line 147
TopTickerStep(o) ==
    /\ pc = "ticker"
    /\ LET r == get_news_ticker(NEWS_API_KEY, o)
       IN /\ last' = [type |-> "call", fn |-> "get_news_ticker", arg |-> NEWS_API_KEY,
                      t |-> now, outcome |-> o, exc |-> r.exc, value |-> r.value,
                      net |-> r.net, hit |-> FALSE]
          /\ widget' = IF r.exc THEN Crash(147)
                       ELSE [kind |-> "ticker", text |-> r.value.s]
          /\ pc' = IF r.exc THEN "crashed" ELSE "sidebar"
    /\ UNCHANGED <<secrets, NEWS_API_KEY, now, cache, currency_pair, selected_port,
                   selected_comm_name, lastFetch, lastRet, lastWeather, sess, remoteLog>>

\* lines 150-175; the profile picture is shown when the file can be read
SidebarStep(cp, port, picture) ==
    /\ pc = "sidebar"
    /\ currency_pair' = cp
    /\ selected_port' = port
    /\ widget' = [kind |-> "profile", picture |-> picture]
    /\ pc' = "forex"
    /\ UNCHANGED <<secrets, NEWS_API_KEY, now, cache, selected_comm_name, last,
                   lastFetch, lastRet, lastWeather, sess, remoteLog>>

\* the state changes of one call get_live_price(k) whose provider would do o
QuoteCall(k, o) ==
    LET r == cached_get_live_price(cache, k, o, now)
    IN /\ cache' = r.cache
       /\ last' = [type |-> "call", fn |-> "get_live_price", arg |-> k, t |-> now,
                   outcome |-> IF r.hit THEN NoCall ELSE o,
                   exc |-> r.exc, value |-> r.value, net |-> r.net, hit |-> r.hit,
                   prevEntry |-> cache[CacheKey(k)],
                   prevFetch |-> lastFetch[k], prevRet |-> lastRet[k]]
       /\ lastFetch' = IF r.net > 0
                       THEN [lastFetch EXCEPT ![k] = Seen(now, get_live_price_body(o).value)]
                       ELSE lastFetch
       /\ lastRet' = IF r.exc THEN lastRet ELSE [lastRet EXCEPT ![k] = Seen(now, r.value)]

\* lines 185-190
ForexStep(o) ==
    /\ pc = "forex"
    /\ IF ~DictHas(map_fx, currency_pair)
       THEN /\ widget' = Crash(186)                              \* KeyError
            /\ pc' = "crashed"
            /\ UNCHANGED <<cache, last, lastFetch, lastRet>>
       ELSE /\ QuoteCall(DictGet(map_fx, currency_pair), o)
            /\ LET fx_data == last'.value
               IN widget' =
                     IF last'.exc THEN Crash(186)
                     ELSE IF Truthy(fx_data)
                     THEN [kind |-> "metric", label |-> currency_pair,
                           value |-> <<"Rs", ".2f", fx_data.items.price>>,
                           delta |-> <<".2f", fx_data.items.change, "%">>]
                     ELSE [kind |-> "metric", label |-> currency_pair,
                           value |-> "N/A", delta |-> "No Data"]
            /\ pc' = IF last'.exc THEN "crashed" ELSE "weather"
    /\ UNCHANGED <<secrets, NEWS_API_KEY, now, currency_pair, selected_port,
                   selected_comm_name, lastWeather, sess, remoteLog>>

\* w['temperature'] and w['windspeed'] both succeed
WeatherRenders(w) ==
    w.type = "dict" /\ {"temperature", "windspeed"} \subseteq DOMAIN w.items

\* lines 193-197
WeatherStep(o) ==
    /\ pc = "weather"
    /\ LET r == get_weather(selected_port, o)
           w == r.value
       IN /\ last' = [type |-> "call", fn |-> "get_weather", arg |-> selected_port,
                      t |-> now, outcome |-> o, exc |-> r.exc, value |-> r.value,
                      net |-> r.net, hit |-> FALSE, prev |-> lastWeather]
          /\ lastWeather' = [type |-> "call", providerRaised |-> Raises(o),
                             none |-> (r.value = PyNone), net |-> r.net]
          /\ widget' =
                IF r.exc THEN Crash(193)
                ELSE IF Truthy(w)
                THEN IF WeatherRenders(w)
                     THEN [kind |-> "metric", label |-> selected_port \o " Conditions",
                           value |-> <<w.items.temperature, "C">>,
                           delta |-> <<"Wind: ", w.items.windspeed, "km/h">>]
                     ELSE Crash(195)                         \* KeyError
                ELSE [kind |-> "metric", label |-> selected_port,
                      value |-> "Offline", delta |-> "Check API"]
          /\ pc' = IF widget'.kind = "exception" THEN "crashed" ELSE "scanner"
    /\ UNCHANGED <<secrets, NEWS_API_KEY, now, cache, currency_pair, selected_port,
                   selected_comm_name, lastFetch, lastRet, sess, remoteLog>>

\* px.line(hist_df, x="Date", y="Close") finds its columns (line 230)
ChartRenders(m) == {"Date", "Close"} \subseteq m.items.history.cols
\* the Open / High / Low look-ups of lines 242-244 succeed
DepthRenders(m) == {"Open", "High", "Low"} \subseteq m.items.history.cols

\* lines 208-250
ScannerStep(name, o) ==
    /\ pc = "scanner"
    /\ selected_comm_name' = name
    /\ IF name = "" THEN                                         \* line 210
            /\ widget' = NoWidget
            /\ pc' = "footer"
            /\ UNCHANGED <<cache, last, lastFetch, lastRet>>
       ELSE IF ~DictHas(COMMODITY_MAP, name)
       THEN /\ widget' = Crash(211)                              \* KeyError
            /\ pc' = "crashed"
            /\ UNCHANGED <<cache, last, lastFetch, lastRet>>
       ELSE /\ QuoteCall(DictGet(COMMODITY_MAP, name), o)
            /\ LET market_data == last'.value
               IN widget' =
                     IF last'.exc THEN Crash(214)
                     ELSE IF Truthy(market_data)
                     THEN IF ~ChartRenders(market_data) THEN Crash(230)
                          ELSE IF ~DepthRenders(market_data) THEN Crash(242)
                          ELSE [kind |-> "scanner", label |-> name,
                                value |-> <<"$", ".2f", market_data.items.price>>,
                                delta |-> <<".2f", market_data.items.change, "%">>,
                                volume |-> market_data.items.volume]
                     ELSE [kind |-> "error", label |-> name,
                           value |-> "Could not fetch live data", delta |-> ""]
            /\ pc' = IF widget'.kind = "exception" THEN "crashed" ELSE "footer"
    /\ UNCHANGED <<secrets, NEWS_API_KEY, now, currency_pair, selected_port,
                   lastWeather, sess, remoteLog>>

\* lines 252-253
Footer ==
    /\ pc = "footer"
    /\ widget' = [kind |-> "footer"]
    /\ pc' = "done"
    /\ UNCHANGED <<secrets, NEWS_API_KEY, now, cache, currency_pair, selected_port,
                   selected_comm_name, last, lastFetch, lastRet, lastWeather, sess,
                   remoteLog>>

TickSteps == {TTL - 1, TTL}

\* the steps over the provider behaviours and the selections explored
TopTicker(os) == pc = "ticker" /\ \E o \in os : TopTickerStep(o)
Sidebar(curs, ports) ==
    pc = "sidebar" /\ \E cp \in curs, port \in ports, picture \in BOOLEAN :
                          SidebarStep(cp, port, picture)
Forex(os) == pc = "forex" /\ \E o \in os : ForexStep(o)
Weather(os) == pc = "weather" /\ \E o \in os : WeatherStep(o)
Scanner(comms, os) ==
    pc = "scanner" /\ \E name \in comms, o \in os : ScannerStep(name, o)

\* one pass of the script
Run(newsOs, curs, ports, fxOs, weatherOs, comms, commOs) ==
    \/ LoadSecrets
    \/ TopTicker(newsOs)
    \/ Sidebar(curs, ports)
    \/ Forex(fxOs)
    \/ Weather(weatherOs)
    \/ Scanner(comms, commOs)
    \/ Footer

NoKey == [has |-> FALSE, key |-> ""]

\* Spec: repeated runs with time passing; the uncached providers are down
InitTimed == Init /\ secrets = NoKey
Next ==
    \/ \E d \in TickSteps : Tick(d)
    \/ Rerun
    \/ Run({Raise}, ExploredCurrencies, {PortOptions[1]}, WellFormedQuoteOutcomes,
           {Raise}, ExploredCommodities, WellFormedQuoteOutcomes)
Spec == InitTimed /\ [][Next]_vars

\* SpecRender: repeated runs at one instant over every provider behaviour
NextRender ==
    \/ Rerun
    \/ Run(NewsOutcomes, ExploredCurrencies, ExploredPorts, QuoteOutcomes,
           WeatherOutcomes, ExploredCommodities, QuoteOutcomes)
SpecRender == Init /\ [][NextRender]_vars

\* SpecQuote: one run whose forex quote ranges over every bounded history
NextQuote ==
    Run({Raise}, ExploredCurrencies, {PortOptions[1]}, AllQuoteOutcomes, {Raise},
        ExploredCommodities, {Raise})
SpecQuote == InitTimed /\ [][NextQuote]_vars

\* SpecSelect: one run over every option the three select boxes offer
NextSelect ==
    Run({Raise}, Range(CurrencyOptions), Range(PortOptions), {Raise, Data(HistA)},
        {Raise}, Range(CommodityOptions), {Raise, Data(HistA)})
SpecSelect == Init /\ [][NextSelect]_vars

-----------------------------------------------------------------------------
(* Concurrent sessions.  Streamlit runs each session's script in its own    *)
(* thread over the one process-wide store.  The steps of a call are the     *)
(* store look-up, the provider call and the store write; the source takes   *)
(* no lock of its own (line 96), so the steps of different sessions         *)
(* interleave freely.  Each look-up and each write is one dictionary        *)
(* operation.                                                               *)

ConcurrentOutcomes == {Data(HistA), Data(HistB)}

\* session s enters get_live_price(k): a fresh entry is returned at once
CLookup(s, k) ==
    /\ sess[s].pc = "idle"
    /\ sess' = [sess EXCEPT ![s] =
                   IF Fresh(cache[CacheKey(k)], now)
                   THEN [pc |-> "idle", key |-> k, res |-> PyNone,
                         ret |-> Seen(0, cache[CacheKey(k)].value)]
                   ELSE [pc |-> "miss", key |-> k, res |-> PyNone, ret |-> NoCall]]
    /\ UNCHANGED <<secrets, NEWS_API_KEY, now, cache, pc, currency_pair, selected_port,
                   selected_comm_name, last, widget, lastFetch, lastRet, lastWeather,
                   remoteLog>>

\* the function body runs: one provider call for the session's ticker
CCompute(s, o) ==
    /\ sess[s].pc = "miss"
    /\ LET r == get_live_price_body(o)
       IN /\ sess' = [sess EXCEPT ![s] = [@ EXCEPT !.pc = "computed", !.res = r.value]]
          /\ remoteLog' = remoteLog \cup {<<sess[s].key, r.value>>}
    /\ UNCHANGED <<secrets, NEWS_API_KEY, now, cache, pc, currency_pair, selected_port,
                   selected_comm_name, last, widget, lastFetch, lastRet, lastWeather>>

\* the computed value is written to the store and returned
CStore(s) ==
    /\ sess[s].pc = "computed"
    /\ cache' = Stored(cache, sess[s].key, Returned(sess[s].res, 1), now)
    /\ sess' = [sess EXCEPT ![s] = [@ EXCEPT !.pc = "idle", !.ret = Seen(0, sess[s].res)]]
    /\ UNCHANGED <<secrets, NEWS_API_KEY, now, pc, currency_pair, selected_port,
                   selected_comm_name, last, widget, lastFetch, lastRet, lastWeather,
                   remoteLog>>

NextConc ==
    \/ Tick(TTL)
    \/ \E s \in Sessions, k \in ConcurrentKeys : CLookup(s, k)
    \/ \E s \in Sessions, o \in ConcurrentOutcomes : CCompute(s, o)
    \/ \E s \in Sessions : CStore(s)
SpecConc == InitTimed /\ [][NextConc]_vars

-----------------------------------------------------------------------------
(* Properties *)

IsCall(fn) == last.type = "call" /\ last.fn = fn
QuoteRows(o) == o.body.rows

\* C1 as stated: if a call get_live_price(k) returned a value v at t0 (whether
\* it was computed or served from the store), a call for k less than 60 s
\* later returns v without a provider call.
C1_HitAfterAnyReturn ==
    (/\ IsCall("get_live_price")
     /\ last.prevRet.type = "seen"
     /\ last.prevRet.value # PyNone
     /\ last.t - last.prevRet.t < TTL)
        => (last.value = last.prevRet.value /\ last.net = 0)

\* C1 amended: if a call get_live_price(k) obtained v from the provider at t0,
\* every call for k less than 60 s after t0 returns v without a provider call,
\* whatever the provider would do; a call served from the store does not
\* restart the 60 s.
C1_HitAfterFetch ==
    (/\ IsCall("get_live_price")
     /\ last.prevFetch.type = "seen"
     /\ last.prevFetch.value # PyNone
     /\ last.t - last.prevFetch.t < TTL)
        => (last.value = last.prevFetch.value /\ last.net = 0)

C1_Witness ==
    /\ IsCall("get_live_price")
    /\ last.prevFetch.type = "seen"
    /\ last.prevFetch.value # PyNone
    /\ last.t - last.prevFetch.t = TTL - 1
    /\ last.hit

\* C2 as stated: after a provider call for k that failed (None was returned),
\* a call for k within the ttl invokes the provider again.
C2_NoNegativeCaching ==
    (/\ IsCall("get_live_price")
     /\ last.prevFetch.type = "seen"
     /\ last.prevFetch.value = PyNone
     /\ last.t - last.prevFetch.t < TTL)
        => last.net = 1

\* C2 amended: the None of a failed quote fetch is stored like any other
\* return value, so a call for k less than 60 s after the failure returns
\* None from the store without a provider call.
C2_FailureIsCached ==
    (/\ IsCall("get_live_price")
     /\ last.prevFetch.type = "seen"
     /\ last.prevFetch.value = PyNone
     /\ last.t - last.prevFetch.t < TTL)
        => (last.hit /\ last.net = 0 /\ last.value = PyNone)

C2_Witness ==
    /\ IsCall("get_live_price")
    /\ last.prevFetch.type = "seen"
    /\ last.prevFetch.value = PyNone
    /\ last.t - last.prevFetch.t = TTL - 1
    /\ last.net = 0

\* C4: a call get_live_price(k) that finds the entry of k 60 s old or older
\* treats it as absent: it calls the provider once, returns the new result
\* and leaves that result in the store with the time of the call.
C4_Expiry ==
    (/\ IsCall("get_live_price")
     /\ last.prevEntry.type = "entry"
     /\ last.t - last.prevEntry.insertedAt >= TTL)
        => (/\ ~last.hit
            /\ last.net = 1
            /\ last.value = get_live_price_body(last.outcome).value
            /\ cache[last.arg] = Entry(last.value, last.t))

C4_Witness ==
    /\ IsCall("get_live_price")
    /\ last.prevEntry.type = "entry"
    /\ last.t - last.prevEntry.insertedAt = TTL
    /\ last.value # PyNone
    /\ last.value # last.prevEntry.value

\* C10: get_live_price computes a quote only from a history of at least two
\* rows, its change being (last close - previous close) / previous close * 100;
\* a history of zero rows or of one row gives None.
C10_ChangeFromPreviousClose ==
    (IsCall("get_live_price") /\ ~last.hit) =>
        /\ last.value # PyNone =>
              /\ last.outcome.kind = "data"
              /\ Len(QuoteRows(last.outcome)) >= 2
              /\ LET rows == QuoteRows(last.outcome)
                     n == Len(rows)
                 IN /\ last.value.items.price = rows[n].Close
                    /\ last.value.items.change =
                          [num |-> (rows[n].Close - rows[n - 1].Close) * 100,
                           den |-> rows[n - 1].Close]
        /\ (last.outcome.kind = "data" /\ Len(QuoteRows(last.outcome)) <= 1)
              => last.value = PyNone

C10_Witness ==
    /\ IsCall("get_live_price")
    /\ last.value # PyNone
    /\ LET rows == QuoteRows(last.outcome)
           n == Len(rows)
       IN /\ n >= 3
          /\ rows[n].Open # rows[n - 1].Close
          /\ rows[1].Close # rows[n - 1].Close
          /\ rows[n].Close # rows[n - 1].Close
          /\ rows[n - 1].Close # 0

\* the provider behaviours of section 7 of the specification: transport
\* failure, a payload without the fields the page reads, an empty result
QuoteFailed(o) ==
    \/ Raises(o)
    \/ /\ o.kind = "data"
       /\ \/ o.body.rows = <<>>
          \/ ~({"Open", "High", "Low", "Close"} \subseteq o.body.cols)
WeatherFailed(o) ==
    \/ Raises(o)
    \/ /\ o.kind = "data"
       /\ \/ o.body.type # "dict"
          \/ "current_weather" \notin DOMAIN o.body.items
          \/ ~WeatherRenders(o.body.items.current_weather)
NewsFailed(o) ==
    \/ Raises(o)
    \/ /\ o.kind = "data"
       /\ \/ o.body.type # "dict"
          \/ "articles" \notin DOMAIN o.body.items
          \/ o.body.items.articles.type # "list"
          \/ o.body.items.articles.xs = <<>>
          \/ \E i \in DOMAIN o.body.items.articles.xs :
                 ~ArticleOk(o.body.items.articles.xs[i])

\* C3 as stated: whatever the provider does (raise, time out, malformed
\* payload, empty result), each fetch function returns normally, and returns
\* its no-data value: None for quotes and weather, a fixed string for news.
C3_FailureAbsorbed ==
    /\ last.type = "call" => ~last.exc
    /\ (IsCall("get_live_price") /\ ~last.hit /\ QuoteFailed(last.outcome))
          => last.value = PyNone
    /\ (IsCall("get_weather") /\ WeatherFailed(last.outcome))
          => last.value = PyNone
    /\ (IsCall("get_news_ticker") /\ NewsFailed(last.outcome))
          => last.value \in {PyStr(NoNewsMsg), PyStr(NewsUnavailableMsg),
                             PyStr(MissingKeyMsg)}

\* C5 as stated: every invocation of a fetch function makes exactly one
\* provider call unless it is served from the store, and then none.
C5_OneCallUnlessHit ==
    last.type = "call" => last.net = (IF last.hit THEN 0 ELSE 1)

\* C5 amended: an invocation makes no provider call when it is served from
\* the store or when it is get_news_ticker with an empty NEWS_API_KEY, and
\* exactly one otherwise (no retry); two successive get_weather calls whose
\* provider raises both return None and call the provider twice in all.
C5_CallCount ==
    /\ last.type = "call" =>
          last.net = (IF last.hit \/ (last.fn = "get_news_ticker" /\ last.arg = "")
                      THEN 0 ELSE 1)
    /\ (/\ IsCall("get_weather")
        /\ Raises(last.outcome)
        /\ last.prev.type = "call"
        /\ last.prev.providerRaised)
          => (last.value = PyNone /\ last.prev.none /\ last.net + last.prev.net = 2)

C5_Witness ==
    /\ IsCall("get_weather")
    /\ Raises(last.outcome)
    /\ last.prev.type = "call"
    /\ last.prev.providerRaised
    /\ cache["INR=X"].type = "entry"

\* C6: with an empty NEWS_API_KEY get_news_ticker returns the missing-key
\* message and calls no provider; the message differs from the feed-failure
\* and the no-articles strings; with a key it is never returned.
C6_MissingKeyDistinct ==
    /\ MissingKeyMsg \notin {NoNewsMsg, NewsUnavailableMsg}
    /\ IsCall("get_news_ticker") =>
          /\ last.arg = "" => (last.value = PyStr(MissingKeyMsg) /\ last.net = 0)
          /\ last.arg # "" =>
                /\ last.value # PyStr(MissingKeyMsg)
                /\ Raises(last.outcome) => last.value = PyStr(NewsUnavailableMsg)
          /\ (secrets.has /\ secrets.key # "") => last.arg # ""

C6_Witness ==
    /\ IsCall("get_news_ticker")
    /\ last.arg = ""
    /\ secrets.has
    /\ last.outcome.kind = "data"
    /\ last.value = PyStr(MissingKeyMsg)

\* C7 as stated: whatever each of the four fetches yields, the run reaches
\* its footer without an uncaught exception, each unavailable source being
\* shown as a degraded widget.
C7_PageAlwaysRenders ==
    /\ pc # "crashed"
    /\ (pc = "weather" /\ last.value = PyNone) => widget.value = "N/A"
    /\ (pc = "scanner" /\ last.value = PyNone) => widget.value = "Offline"
    /\ (pc = "footer" /\ IsCall("get_live_price") /\ last.value = PyNone)
          => widget.kind = "error"

\* C8: the pair, the port and the commodity a user has selected each have
\* exactly one entry in map_fx, in the coordinate table and in COMMODITY_MAP,
\* as has every option the three select boxes offer, so no look-up fails.
Entries(d, k) == {i \in DOMAIN d : d[i][1] = k}
C8_LookupsTotal ==
    /\ Cardinality(Entries(map_fx, currency_pair)) = 1
    /\ Cardinality(Entries(coords, selected_port)) = 1
    /\ Cardinality(Entries(COMMODITY_MAP, selected_comm_name)) = 1
    /\ \A i \in DOMAIN CurrencyOptions :
           Cardinality(Entries(map_fx, CurrencyOptions[i])) = 1
    /\ \A i \in DOMAIN PortOptions :
           Cardinality(Entries(coords, PortOptions[i])) = 1
    /\ \A i \in DOMAIN CommodityOptions :
           Cardinality(Entries(COMMODITY_MAP, CommodityOptions[i])) = 1
    /\ pc = "crashed" => widget.line \notin {186, 211}

C8_Witness ==
    /\ pc = "done"
    /\ currency_pair = "GBP/INR"
    /\ selected_port = "Chennai"
    /\ selected_comm_name = "Cocoa (1801)"
    /\ cache["GBPINR=X"].type = "entry"
    /\ cache["CC=F"].type = "entry"

\* C9: under every interleaving of concurrent get_live_price calls, the entry
\* stored for a ticker is a whole result that one provider call for that
\* ticker returned, and so is every value a session is handed for it.
ResultsFor(k) == {e[2] : e \in {x \in remoteLog : x[1] = k}}
C9_EntriesAreWholeResults ==
    /\ \A k \in Tickers :
           cache[k].type = "entry" => cache[k].value \in ResultsFor(k)
    /\ \A s \in Sessions :
           /\ sess[s].ret.type = "seen" => sess[s].ret.value \in ResultsFor(sess[s].key)
           /\ sess[s].pc = "computed" => sess[s].res \in ResultsFor(sess[s].key)

\* two provider calls for one ticker at the same instant, one result lost
C9_Witness ==
    \E k \in ConcurrentKeys, s1, s2 \in Sessions :
        /\ now = 0
        /\ s1 # s2
        /\ sess[s1].pc = "idle" /\ sess[s2].pc = "idle"
        /\ sess[s1].key = k /\ sess[s2].key = k
        /\ sess[s1].ret.type = "seen" /\ sess[s2].ret.type = "seen"
        /\ sess[s1].ret.value # sess[s2].ret.value
        /\ Cardinality(ResultsFor(k)) = 2
        /\ ResultsFor("CL=F") # {} /\ ResultsFor("INR=X") # {}
        /\ cache[k] = Entry(sess[s2].ret.value, 0)

====
